---- MODULE Spec2Model ----
(***************************************************************************)
(* copypod: copy a Kubernetes pod, wait for the copy, optionally attach an *)
(* interactive session to it and delete it afterwards.                     *)
(*                                                                         *)
(* Two specifications live in this module.                                 *)
(*   Spec       the program src/copypod/main.py (main, prepare_pod,        *)
(*              wait_while_pending, get_pod_matching_labels) run against a *)
(*              cluster whose answers are chosen nondeterministically.     *)
(*   SpecStages the pure pod transformations: prepare_pod of main.py and   *)
(*              the stage functions of src/copypod/pod_config.py, applied  *)
(*              to inputs drawn from bounded sets.                         *)
(*                                                                         *)
(* Conventions.  A Python value that may be None is a sequence of length   *)
(* 0 (None) or 1 (the value).  A Python dict is a TLA+ function.  Strings  *)
(* the program only passes around are TLA+ strings; strings the program    *)
(* builds or takes apart (pod names, capability lists) are sequences of    *)
(* one-character strings.                                                  *)
(***************************************************************************)
EXTENDS Integers, Sequences, FiniteSets, TLC

VARIABLES
    pc,          \* position of main(): the orchestrator's state
    args,        \* argparse.Namespace returned by parse_cli_arguments()
    cluster,     \* pods of the namespace, in API list order
    pod_name,    \* main()'s local pod_name
    src_pod,     \* the pod returned by the read of the source pod
    dest_pod,    \* the pod returned by prepare_pod
    calls,       \* every call made to the cluster or to kubectl, in order
    result,      \* returncode of the attach subprocess
    exit_code,   \* exit status of the process
    ended_by,    \* "running", "sys.exit" or the name of an uncaught exception
    stdout,      \* lines printed to standard output
    stderr,      \* messages printed to standard error
    sin,         \* SpecStages: the pod and the parameters given to the stages
    stage,       \* SpecStages: how many stages of pod_config.py have run
    spod,        \* SpecStages: the pod after those stages, or the failure
    mono         \* SpecStages: what prepare_pod of main.py does with sin

main_vars == <<pc, args, cluster, pod_name, src_pod, dest_pod, calls,
               result, exit_code, ended_by, stdout, stderr>>
stage_vars == <<sin, stage, spod, mono>>
vars == <<main_vars, stage_vars>>

----------------------------------------------------------------------------
(* Bounds of the model *)

\* wait_while_pending polls without limit; the model stops after this many.
MaxPolls == 3

(* Constants of the program *)

\* V1DeleteOptions(grace_period_seconds=1)
GracePeriodSeconds == 1

----------------------------------------------------------------------------
(* Python values *)

None == <<>>
Some(x) == <<x>>
IsNone(o) == o = <<>>
\* Python truthiness of an optional string, and of an optional list
TruthyStr(o) == o # <<>> /\ o[1] # ""
TruthyList(o) == o # <<>> /\ o[1] # <<>>

EmptyDict == <<>>
HasKey(d, k) == k \in DOMAIN d
DictSet(d, k, v) == [x \in (DOMAIN d) \cup {k} |-> IF x = k THEN v ELSE d[x]]

\* str.upper(), on the characters the model uses
UpperChar(c) ==
    CASE c = "a" -> "A"
      [] c = "b" -> "B"
      [] c = "c" -> "C"
      [] OTHER -> c

Upper(s) == [i \in 1..Len(s) |-> UpperChar(s[i])]

\* str.split(sep): the pieces between separators; "".split(",") is [""]
RECURSIVE SplitFrom(_, _, _)
SplitFrom(s, sep, cur) ==
    IF s = <<>> THEN <<cur>>
    ELSE IF Head(s) = sep THEN <<cur>> \o SplitFrom(Tail(s), sep, <<>>)
    ELSE SplitFrom(Tail(s), sep, Append(cur, Head(s)))

Split(s, sep) == SplitFrom(s, sep, <<>>)

\* itertools.chain.from_iterable
RECURSIVE Flatten(_)
Flatten(ss) == IF ss = <<>> THEN <<>> ELSE Head(ss) \o Flatten(Tail(ss))

\* shlex.split, on the command strings the model uses: the token list, or
\* ValueError for a string with an unclosed quotation
ShlexSplit(s) ==
    CASE s = "sleep infinity" -> [ok |-> TRUE, tokens |-> <<"sleep", "infinity">>]
      [] s = "bash" -> [ok |-> TRUE, tokens |-> <<"bash">>]
      [] s = "sh -c 'ls" -> [ok |-> FALSE, tokens |-> <<>>]
      [] OTHER -> [ok |-> TRUE, tokens |-> <<s>>]

----------------------------------------------------------------------------
(* Pods of the cluster *)

PodCopyPrefix == <<"p", "o", "d", "-", "c", "o", "p", "y", "-">>

NameWeb == <<"w", "e", "b">>
NameApi == <<"a", "p", "i">>
NameJob == <<"j", "o", "b">>
NameGhost == <<"g", "o", "n", "e">>

MkContainer(name, sc) ==
    [name |-> name,
     image |-> "nginx",
     command |-> Some(<<"serve">>),
     args |-> Some(<<"--port", "80">>),
     liveness_probe |-> Some("http-get"),
     readiness_probe |-> Some("http-get"),
     startup_probe |-> Some("http-get"),
     resources |-> Some("limits"),
     env |-> None,
     security_context |-> sc]

MkPod(name, labels, annotations, containers, ph) ==
    [metadata |-> [name |-> name,
                   namespace |-> "default",
                   annotations |-> annotations,
                   labels |-> labels,
                   creation_timestamp |-> Some("2021-01-01"),
                   owner_references |-> Some("ReplicaSet"),
                   resource_version |-> Some("42"),
                   uid |-> Some("uid-1")],
     spec |-> [containers |-> containers,
               affinity |-> Some("zone-a"),
               node_name |-> Some("node-0"),
               restart_policy |-> "Always"],
     status |-> [phase |-> ph]]

NoSecurityContext == None
EmptySecurityContext == Some([capabilities |-> None, run_as_user |-> Some("1000")])
SecurityContextWithAdd ==
    Some([capabilities |-> Some([add |-> Some(<< <<"C">> >>), drop |-> None]),
          run_as_user |-> None])

PodWeb ==
    MkPod(NameWeb, [app |-> "web"], Some([team |-> "core"]),
          <<MkContainer("app", NoSecurityContext)>>, "Running")
PodApi ==
    MkPod(NameApi, [app |-> "web"], Some(EmptyDict),
          <<MkContainer("app", SecurityContextWithAdd),
            MkContainer("sidecar", EmptySecurityContext)>>, "Running")
PodJob ==
    MkPod(NameJob, [app |-> "job"], None,
          <<MkContainer("app", NoSecurityContext)>>, "Running")
\* a copy left behind by an earlier run
NameOldCopy == PodCopyPrefix \o <<"a", "7", "a", "7", "a", "7">>
\* its container already has environment variables
ExistingEnv == <<[name |-> <<"Z">>, value |-> <<"9">>], [name |-> <<"A">>, value |-> <<"0">>]>>
PodOldCopy ==
    MkPod(NameOldCopy, [copypod |-> "true"], Some([creator |-> "bob"]),
          <<[MkContainer("app", EmptySecurityContext) EXCEPT !.env = Some(ExistingEnv)]>>,
          "Running")

\* the namespace before the run, in the order the API lists it
InitialCluster == <<PodApi, PodWeb, PodJob, PodOldCopy>>

\* the cluster's side of label_selector=...: the model's selectors are app=<value>
SelectorValue(selector) ==
    CASE selector = "app=web" -> "web"
      [] selector = "app=job" -> "job"
      [] OTHER -> "no-such-value"
LabelMatch(selector, pod) ==
    HasKey(pod.metadata.labels, "app")
    /\ pod.metadata.labels["app"] = SelectorValue(selector)

Phases == {"Pending", "Running", "Succeeded", "Failed", "Unknown"}
Reasons == {"Forbidden", "NotFound"}
Users == {"alice"}
\* the suffixes random.choices may return, of which the model draws a few
RandomSuffixes == {<<"a", "7", "a", "7", "a", "7">>, <<"k", "3", "x", "9", "q", "z">>}
\* exit codes of the attach subprocess
ExitCodes == {0, 1, 3}

----------------------------------------------------------------------------
(* main.py: prepare_pod *)

\* found_containers = {i.name: i for i in pod.spec.containers}: of several
\* containers with one name the dict keeps the last
FoundNames(containers) == {containers[i].name : i \in 1..Len(containers)}
FoundContainer(containers, name) ==
    LET idx == {i \in 1..Len(containers) : containers[i].name = name}
        last == CHOOSE i \in idx : \A j \in idx : j <= i
    IN containers[last]

\* lines 166-184 of prepare_pod: the container with the capabilities merged in
MergeCapabilities(c, capabilities) ==
    IF ~TruthyList(capabilities) THEN c
    ELSE
      LET caps == Flatten([i \in 1..Len(capabilities[1]) |->
                              Split(Upper(capabilities[1][i]), ",")])
          sc1 == IF IsNone(c.security_context)
                 THEN [capabilities |-> None, run_as_user |-> None]
                 ELSE c.security_context[1]
          cp1 == IF IsNone(sc1.capabilities)
                 THEN [add |-> None, drop |-> None]
                 ELSE sc1.capabilities[1]
          add == IF TruthyList(cp1.add) THEN cp1.add[1] \o caps ELSE caps
      IN [c EXCEPT !.security_context =
             Some([sc1 EXCEPT !.capabilities = Some([cp1 EXCEPT !.add = Some(add)])])]

Failure(kind, msg) == [ok |-> FALSE, kind |-> kind, msg |-> msg]

\* lines 129-147 of prepare_pod: the containers left in the pod, or the failure
prepare_pod_containers(found, container) ==
    LET given == TruthyStr(container)
        containers == IF given /\ container[1] \in FoundNames(found)
                      THEN <<FoundContainer(found, container[1])>>
                      ELSE found
    IN IF given /\ container[1] \notin FoundNames(found)
       THEN Failure("sys.exit", "Error: The specified container was not found in the pod")
       ELSE IF Len(containers) > 1
       THEN Failure("sys.exit",
                    "Error: Pod contains multiple containers but `--container` wasn't specified")
       ELSE IF Len(containers) = 0
       THEN Failure("IndexError", "list index out of range")
       ELSE [ok |-> TRUE, containers |-> containers]

\* prepare_pod that leaves the source's node name in place when no node name
\* is given
prepare_pod_keeps_node(pod, command, container, image, capabilities, node_name, user, suffix) ==
    IF IsNone(pod.metadata.annotations)
    THEN Failure("TypeError", "'NoneType' object does not support item assignment")
    ELSE
      LET md == [pod.metadata EXCEPT
                   !.annotations = Some(DictSet(pod.metadata.annotations[1],
                                                "sentry/ignore-pod-updates", "true")),
                   !.creation_timestamp = None,
                   !.labels = [x \in {"creator", "original-pod"} |->
                                 IF x = "creator" THEN user ELSE pod.metadata.name],
                   !.name = PodCopyPrefix \o suffix,
                   !.owner_references = None,
                   !.resource_version = None,
                   !.uid = None]
          sel == prepare_pod_containers(pod.spec.containers, container)
      IN IF ~sel.ok THEN sel
         ELSE
           LET c1 == [sel.containers[1] EXCEPT
                        !.command = Some(command),
                        !.args = None,
                        !.liveness_probe = None,
                        !.readiness_probe = None,
                        !.startup_probe = None,
                        !.resources = None,
                        !.image = IF TruthyStr(image) THEN image[1] ELSE @]
               c2 == MergeCapabilities(c1, capabilities)
           IN [ok |-> TRUE,
               pod |-> [metadata |-> md,
                        spec |-> [pod.spec EXCEPT
                                    !.containers = <<c2>>,
                                    !.affinity = None,
                                    !.node_name = IF IsNone(node_name) THEN @ ELSE node_name,
                                    !.restart_policy = "Never"],
                        status |-> EmptyDict]]

\* prepare_pod(pod, command, container, image, capabilities, node_name); user
\* is what getpass.getuser() returns and suffix what random_suffix() returns
prepare_pod(pod, command, container, image, capabilities, node_name, user, suffix) ==
    IF IsNone(pod.metadata.annotations)
    THEN Failure("TypeError", "'NoneType' object does not support item assignment")
    ELSE
      LET md == [pod.metadata EXCEPT
                   !.annotations = Some(DictSet(pod.metadata.annotations[1],
                                                "sentry/ignore-pod-updates", "true")),
                   !.creation_timestamp = None,
                   !.labels = [x \in {"creator", "original-pod"} |->
                                 IF x = "creator" THEN user ELSE pod.metadata.name],
                   !.name = PodCopyPrefix \o suffix,
                   !.owner_references = None,
                   !.resource_version = None,
                   !.uid = None]
          sel == prepare_pod_containers(pod.spec.containers, container)
      IN IF ~sel.ok THEN sel
         ELSE
           LET c1 == [sel.containers[1] EXCEPT
                        !.command = Some(command),
                        !.args = None,
                        !.liveness_probe = None,
                        !.readiness_probe = None,
                        !.startup_probe = None,
                        !.resources = None,
                        !.image = IF TruthyStr(image) THEN image[1] ELSE @]
               c2 == MergeCapabilities(c1, capabilities)
           IN [ok |-> TRUE,
               pod |-> [metadata |-> md,
                        spec |-> [pod.spec EXCEPT
                                    !.containers = <<c2>>,
                                    !.affinity = None,
                                    !.node_name = node_name,
                                    !.restart_policy = "Never"],
                        status |-> EmptyDict]]

----------------------------------------------------------------------------
(* pod_config.py: the stages of the transformation *)

Ok(pod) == [ok |-> TRUE, pod |-> pod]

\* remove_extra_containers that keeps the pod's first container instead of
\* the one that was named
remove_extra_containers_first(pod, container_name) ==
    IF ~TruthyStr(container_name)
    THEN IF Len(pod.spec.containers) > 1
         THEN Failure("CopypodError",
                      "Pod contains multiple containers but `--container` wasn't specified")
         ELSE Ok(pod)
    ELSE IF container_name[1] \notin FoundNames(pod.spec.containers)
    THEN Failure("CopypodError", "The specified container was not found in the pod")
    ELSE Ok([pod EXCEPT !.spec.containers = <<pod.spec.containers[1]>>])

remove_extra_containers(pod, container_name) ==
    IF ~TruthyStr(container_name)
    THEN IF Len(pod.spec.containers) > 1
         THEN Failure("CopypodError",
                      "Pod contains multiple containers but `--container` wasn't specified")
         ELSE Ok(pod)
    ELSE IF container_name[1] \notin FoundNames(pod.spec.containers)
    THEN Failure("CopypodError", "The specified container was not found in the pod")
    ELSE Ok([pod EXCEPT !.spec.containers =
                <<FoundContainer(pod.spec.containers, container_name[1])>>])

\* add_annotations that does not record the pod the copy was made from
add_annotations_without_original(pod, user) ==
    LET a0 == IF IsNone(pod.metadata.annotations) THEN EmptyDict
              ELSE pod.metadata.annotations[1]
        a1 == DictSet(a0, "creator", user)
        a3 == DictSet(a1, "karpenter.sh/do-not-disrupt", "true")
        a4 == DictSet(a3, "sentry/ignore-pod-updates", "true")
    IN Ok([pod EXCEPT !.metadata.annotations = Some(a4)])

\* user is what getuser() returns
add_annotations(pod, user) ==
    LET a0 == IF IsNone(pod.metadata.annotations) THEN EmptyDict
              ELSE pod.metadata.annotations[1]
        a1 == DictSet(a0, "creator", user)
        a2 == DictSet(a1, "original-pod", pod.metadata.name)
        a3 == DictSet(a2, "karpenter.sh/do-not-disrupt", "true")
        a4 == DictSet(a3, "sentry/ignore-pod-updates", "true")
    IN Ok([pod EXCEPT !.metadata.annotations = Some(a4)])

\* clear_fields that leaves the startup probe in place
clear_fields_keeps_startup_probe(pod) ==
    IF Len(pod.spec.containers) = 0
    THEN Failure("IndexError", "list index out of range")
    ELSE Ok([metadata |-> [pod.metadata EXCEPT
                             !.creation_timestamp = None,
                             !.labels = [copypod |-> "true"],
                             !.owner_references = None,
                             !.resource_version = None,
                             !.uid = None],
             spec |-> [pod.spec EXCEPT
                         !.containers[1].liveness_probe = None,
                         !.containers[1].readiness_probe = None,
                         !.containers[1].resources = None,
                         !.affinity = None,
                         !.node_name = None,
                         !.restart_policy = "Never"],
             status |-> EmptyDict])

\* clear_fields that adds its marker to the labels the pod already has
clear_fields_merges_labels(pod) ==
    IF Len(pod.spec.containers) = 0
    THEN Failure("IndexError", "list index out of range")
    ELSE Ok([metadata |-> [pod.metadata EXCEPT
                             !.creation_timestamp = None,
                             !.labels = DictSet(@, "copypod", "true"),
                             !.owner_references = None,
                             !.resource_version = None,
                             !.uid = None],
             spec |-> [pod.spec EXCEPT
                         !.containers[1].liveness_probe = None,
                         !.containers[1].readiness_probe = None,
                         !.containers[1].startup_probe = None,
                         !.containers[1].resources = None,
                         !.affinity = None,
                         !.node_name = None,
                         !.restart_policy = "Never"],
             status |-> EmptyDict])

clear_fields(pod) ==
    IF Len(pod.spec.containers) = 0
    THEN Failure("IndexError", "list index out of range")
    ELSE Ok([metadata |-> [pod.metadata EXCEPT
                             !.creation_timestamp = None,
                             !.labels = [copypod |-> "true"],
                             !.owner_references = None,
                             !.resource_version = None,
                             !.uid = None],
             spec |-> [pod.spec EXCEPT
                         !.containers[1].liveness_probe = None,
                         !.containers[1].readiness_probe = None,
                         !.containers[1].startup_probe = None,
                         !.containers[1].resources = None,
                         !.affinity = None,
                         !.node_name = None,
                         !.restart_policy = "Never"],
             status |-> EmptyDict])

\* set_pod_name that renames the pod only when a suffix was given
set_pod_name_only_with_suffix(pod, suffix, random) ==
    IF ~TruthyList(suffix) THEN Ok(pod)
    ELSE Ok([pod EXCEPT !.metadata.name = PodCopyPrefix \o suffix[1]])

\* random is what choices(...) returns when no suffix is given
set_pod_name(pod, suffix, random) ==
    LET sfx == IF ~TruthyList(suffix) THEN random ELSE suffix[1]
    IN Ok([pod EXCEPT !.metadata.name = PodCopyPrefix \o sfx])

\* a split at the last separator instead of the first
SplitAtLast(s, sep, cur) ==
    LET idx == {k \in 1..Len(s) : s[k] = sep} IN
    IF idx = {} THEN <<s>>
    ELSE LET m == CHOOSE k \in idx : \A j \in idx : j <= k
         IN <<SubSeq(s, 1, m - 1), SubSeq(s, m + 1, Len(s))>>

\* env_var.split("=", 1): the text before the first "=" and the text after
\* it, or the whole text alone when it holds no "="
RECURSIVE SplitOnce(_, _, _)
SplitOnce(s, sep, cur) ==
    IF s = <<>> THEN <<cur>>
    ELSE IF Head(s) = sep THEN <<cur, Tail(s)>>
    ELSE SplitOnce(Tail(s), sep, Append(cur, Head(s)))

\* the loop of lines 106-113 over the variables from index i on
RECURSIVE AppendEnv(_, _, _)
AppendEnv(env, environment_variables, i) ==
    IF i > Len(environment_variables) THEN [ok |-> TRUE, env |-> env]
    ELSE LET parts == SplitOnce(environment_variables[i], "=", <<>>) IN
         IF Len(parts) # 2
         THEN [ok |-> FALSE, env |-> env]
         ELSE AppendEnv(Append(env, [name |-> parts[1], value |-> parts[2]]),
                        environment_variables, i + 1)

configure_container(pod, command, image, environment_variables) ==
    IF ~ShlexSplit(command).ok
    THEN Failure("ValueError", "No closing quotation")
    ELSE IF Len(pod.spec.containers) = 0
    THEN Failure("IndexError", "list index out of range")
    ELSE
      LET c0 == pod.spec.containers[1]
          c1 == [c0 EXCEPT !.command = Some(ShlexSplit(command).tokens),
                           !.args = None,
                           !.image = IF TruthyStr(image) THEN image[1] ELSE @]
      IN IF ~TruthyList(environment_variables)
         THEN Ok([pod EXCEPT !.spec.containers[1] = c1])
         ELSE LET r == AppendEnv(IF IsNone(c1.env) THEN <<>> ELSE c1.env[1],
                                 environment_variables[1], 1)
              IN IF ~r.ok
                 THEN Failure("CopypodError",
                        "Environment variables need to be provided in the format: NAME=value")
                 ELSE Ok([pod EXCEPT !.spec.containers[1] =
                                        [c1 EXCEPT !.env = Some(r.env)]])

\* add_capabilities that replaces the "add" list the container already has
add_capabilities_replaces(pod, capabilities) ==
    IF ~TruthyList(capabilities) THEN Ok(pod)
    ELSE IF Len(pod.spec.containers) = 0
    THEN Failure("IndexError", "list index out of range")
    ELSE
      LET caps == Flatten([i \in 1..Len(capabilities[1]) |->
                              Split(Upper(capabilities[1][i]), ",")])
          c == pod.spec.containers[1]
          sc1 == IF IsNone(c.security_context)
                 THEN [capabilities |-> None, run_as_user |-> None]
                 ELSE c.security_context[1]
          cp1 == IF IsNone(sc1.capabilities)
                 THEN [add |-> None, drop |-> None]
                 ELSE sc1.capabilities[1]
      IN Ok([pod EXCEPT !.spec.containers[1].security_context =
                Some([sc1 EXCEPT !.capabilities = Some([cp1 EXCEPT !.add = Some(caps)])])])

add_capabilities(pod, capabilities) ==
    IF ~TruthyList(capabilities) THEN Ok(pod)
    ELSE IF Len(pod.spec.containers) = 0
    THEN Failure("IndexError", "list index out of range")
    ELSE
      LET caps == Flatten([i \in 1..Len(capabilities[1]) |->
                              Split(Upper(capabilities[1][i]), ",")])
          c == pod.spec.containers[1]
          sc1 == IF IsNone(c.security_context)
                 THEN [capabilities |-> None, run_as_user |-> None]
                 ELSE c.security_context[1]
          cp1 == IF IsNone(sc1.capabilities)
                 THEN [add |-> None, drop |-> None]
                 ELSE sc1.capabilities[1]
          add == IF TruthyList(cp1.add) THEN cp1.add[1] \o caps ELSE caps
      IN Ok([pod EXCEPT !.spec.containers[1].security_context =
                Some([sc1 EXCEPT !.capabilities = Some([cp1 EXCEPT !.add = Some(add)])])])

----------------------------------------------------------------------------
(* The cluster, as main() sees it through the API client *)

PodsNamed(c, name) == {i \in 1..Len(c) : c[i].metadata.name = name}
Exists(c, name) == PodsNamed(c, name) # {}
PodNamed(c, name) == c[CHOOSE i \in PodsNamed(c, name) : TRUE]
SetPhase(c, name, ph) ==
    [i \in 1..Len(c) |-> IF c[i].metadata.name = name
                         THEN [c[i] EXCEPT !.status = [phase |-> ph]]
                         ELSE c[i]]
RemovePod(c, name) == SelectSeq(c, LAMBDA p : p.metadata.name # name)
\* list_namespaced_pod(namespace, label_selector=selector).items
ListPods(c, selector) == SelectSeq(c, LAMBDA p : LabelMatch(selector, p))

\* one call of the program to the cluster or to kubectl: name is the pod it
\* names, grace the grace_period_seconds of a delete, outcome "ok" or the
\* reason of the error, observed the phase a poll saw or the return code of
\* the attach session, remote the command tokens handed to kubectl exec
Call(op, name, grace, outcome, observed) ==
    [op |-> op, name |-> name, namespace |-> args.namespace, grace |-> grace,
     outcome |-> outcome, observed |-> observed, context |-> None, remote |-> None]

Traceback(kind) == <<"Traceback (most recent call last)", kind>>

NumCalls(op) == Cardinality({i \in 1..Len(calls) : calls[i].op = op})

\* sys.exit(code), and the end of the process by an uncaught exception
\* (CPython prints the traceback and exits with status 1)
Ends(code, by) ==
    /\ pc' = "Done"
    /\ exit_code' = Some(code)
    /\ ended_by' = by

----------------------------------------------------------------------------
(* main.py: main *)

ArgSets ==
    [namespace : {"default"},
     context : {None, Some("prod")},
     selector : {None},
     pod : {Some(NameWeb), Some(NameApi), Some(NameJob), Some(NameOldCopy),
            Some(NameGhost)},
     container : {None, Some("app"), Some("nope")},
     command : {"sleep infinity", "sh -c 'ls"},
     interactive : {None, Some("bash"), Some("sh -c 'ls")},
     image : {None, Some("debug:1")},
     cap_add : {None, Some(<< <<"a", ",", "b">> >>)},
     node_name : {None, Some("node-1")}]
    \cup
    [namespace : {"default"},
     context : {None},
     selector : {Some("app=web"), Some("app=job"), Some("app=none")},
     pod : {None},
     container : {None, Some("app")},
     command : {"sleep infinity"},
     interactive : {None, Some("bash")},
     image : {None},
     cap_add : {None},
     node_name : {None}]

\* SpecStages does not run under Spec
StagesIdle ==
    /\ sin = None
    /\ stage = 0
    /\ spod = None
    /\ mono = None

Init ==
    /\ StagesIdle
    /\ pc = "ResolvingTarget"
    /\ args \in ArgSets
    /\ cluster = InitialCluster
    /\ pod_name = args.pod
    /\ src_pod = None
    /\ dest_pod = None
    /\ calls = <<>>
    /\ result = None
    /\ exit_code = None
    /\ ended_by = "running"
    /\ stdout = <<>>
    /\ stderr = <<>>

\* ResolveTarget without the sys.exit(1) of line 95: an empty list is
\* reported and main() goes on with no pod name
ResolveTargetNoExit ==
    /\ pc = "ResolvingTarget"
    /\ IF TruthyStr(args.selector)
       THEN \/ \E reason \in Reasons :
                 /\ calls' = Append(calls, Call("list", None, None, reason, None))
                 /\ stderr' = Append(stderr,
                       <<"Error occurred when trying to find pod matching labels", reason>>)
                 /\ Ends(1, "sys.exit")
                 /\ UNCHANGED pod_name
            \/ LET pods_list == ListPods(cluster, args.selector[1]) IN
                 /\ calls' = Append(calls, Call("list", None, None, "ok", None))
                 /\ pc' = "Fetching"
                 /\ UNCHANGED <<exit_code, ended_by>>
                 /\ IF pods_list # <<>>
                    THEN /\ pod_name' = Some(pods_list[1].metadata.name)
                         /\ UNCHANGED stderr
                    ELSE /\ stderr' = Append(stderr,
                               <<"No pods were found which matched the provided labels", "">>)
                         /\ pod_name' = Some(NameGhost)
       ELSE /\ pc' = "Fetching"
            /\ UNCHANGED <<pod_name, calls, stderr, exit_code, ended_by>>
    /\ UNCHANGED <<args, cluster, src_pod, dest_pod, result, stdout, stage_vars>>

\* lines 205-206 and get_pod_matching_labels (lines 86-101)
ResolveTarget ==
    /\ pc = "ResolvingTarget"
    /\ IF TruthyStr(args.selector)
       THEN \/ \E reason \in Reasons :
                 /\ calls' = Append(calls, Call("list", None, None, reason, None))
                 /\ stderr' = Append(stderr,
                       <<"Error occurred when trying to find pod matching labels", reason>>)
                 /\ Ends(1, "sys.exit")
                 /\ UNCHANGED pod_name
            \/ LET pods_list == ListPods(cluster, args.selector[1]) IN
                 /\ calls' = Append(calls, Call("list", None, None, "ok", None))
                 /\ IF pods_list # <<>>
                    THEN /\ pod_name' = Some(pods_list[1].metadata.name)
                         /\ pc' = "Fetching"
                         /\ UNCHANGED <<stderr, exit_code, ended_by>>
                    ELSE /\ stderr' = Append(stderr,
                               <<"No pods were found which matched the provided labels", "">>)
                         /\ Ends(1, "sys.exit")
                         /\ UNCHANGED pod_name
       ELSE /\ pc' = "Fetching"
            /\ UNCHANGED <<pod_name, calls, stderr, exit_code, ended_by>>
    /\ UNCHANGED <<args, cluster, src_pod, dest_pod, result, stdout, stage_vars>>

\* lines 208-216: read the source pod
Fetch ==
    /\ pc = "Fetching"
    /\ \/ \E reason \in Reasons :
            /\ reason = "NotFound" <=> ~Exists(cluster, pod_name[1])
            /\ calls' = Append(calls, Call("read", pod_name, None, reason, None))
            /\ stderr' = Append(stderr,
                  <<"Error occurred when trying to get information about existing pod",
                    reason>>)
            /\ Ends(1, "sys.exit")
            /\ UNCHANGED src_pod
       \/ /\ Exists(cluster, pod_name[1])
          /\ calls' = Append(calls, Call("read", pod_name, None, "ok", None))
          /\ src_pod' = Some(PodNamed(cluster, pod_name[1]))
          /\ pc' = "Transforming"
          /\ UNCHANGED <<stderr, exit_code, ended_by>>
    /\ UNCHANGED <<args, cluster, pod_name, dest_pod, result, stdout, stage_vars>>

\* lines 218-226: shlex.split(args.command) and prepare_pod
Transform ==
    /\ pc = "Transforming"
    /\ LET command == ShlexSplit(args.command) IN
       IF ~command.ok
       THEN /\ Ends(1, "ValueError")
            /\ stderr' = Append(stderr, Traceback("ValueError"))
            /\ UNCHANGED dest_pod
       ELSE \E user \in Users, suffix \in RandomSuffixes :
            LET r == prepare_pod(src_pod[1], command.tokens, args.container,
                                 args.image, args.cap_add, args.node_name, user, suffix)
            IN IF r.ok
               THEN /\ dest_pod' = Some(r.pod)
                    /\ pc' = "Submitting"
                    /\ UNCHANGED <<stderr, exit_code, ended_by>>
               ELSE /\ Ends(1, r.kind)
                    /\ stderr' = IF r.kind = "sys.exit"
                                  THEN Append(stderr, <<r.msg, "">>)
                                  ELSE Append(stderr, Traceback(r.kind))
                    /\ UNCHANGED dest_pod
    /\ UNCHANGED <<args, cluster, pod_name, src_pod, calls, result, stdout, stage_vars>>

\* Submit without the sys.exit(1) of line 234: a rejected create is reported
\* and main() goes on to wait for the pod
SubmitNoExit ==
    /\ pc = "Submitting"
    /\ LET name == dest_pod[1].metadata.name IN
       \/ \E reason \in {"Forbidden", "AlreadyExists"} :
            /\ reason = "AlreadyExists" <=> Exists(cluster, name)
            /\ calls' = Append(calls, Call("create", Some(name), None, reason, None))
            /\ stderr' = Append(stderr,
                  <<"Error occurred when trying to create copied pod", reason>>)
            /\ pod_name' = Some(name)
            /\ pc' = "AwaitingRunning"
            /\ UNCHANGED <<cluster, exit_code, ended_by>>
       \/ /\ ~Exists(cluster, name)
          /\ calls' = Append(calls, Call("create", Some(name), None, "ok", None))
          /\ cluster' = Append(cluster,
                               [dest_pod[1] EXCEPT !.status = [phase |-> "Pending"]])
          /\ pod_name' = Some(name)
          /\ pc' = "AwaitingRunning"
          /\ UNCHANGED <<stderr, exit_code, ended_by>>
    /\ UNCHANGED <<args, src_pod, dest_pod, result, stdout, stage_vars>>

\* Submit without line 236: pod_name still names the source pod
SubmitKeepsPodName ==
    /\ pc = "Submitting"
    /\ LET name == dest_pod[1].metadata.name IN
       \/ \E reason \in {"Forbidden", "AlreadyExists"} :
            /\ reason = "AlreadyExists" <=> Exists(cluster, name)
            /\ calls' = Append(calls, Call("create", Some(name), None, reason, None))
            /\ stderr' = Append(stderr,
                  <<"Error occurred when trying to create copied pod", reason>>)
            /\ Ends(1, "sys.exit")
            /\ UNCHANGED cluster
       \/ /\ ~Exists(cluster, name)
          /\ calls' = Append(calls, Call("create", Some(name), None, "ok", None))
          /\ cluster' = Append(cluster,
                               [dest_pod[1] EXCEPT !.status = [phase |-> "Pending"]])
          /\ pc' = "AwaitingRunning"
          /\ UNCHANGED <<stderr, exit_code, ended_by>>
    /\ UNCHANGED <<args, pod_name, src_pod, dest_pod, result, stdout, stage_vars>>

\* lines 227-236: create the copy
Submit ==
    /\ pc = "Submitting"
    /\ LET name == dest_pod[1].metadata.name IN
       \/ \E reason \in {"Forbidden", "AlreadyExists"} :
            /\ reason = "AlreadyExists" <=> Exists(cluster, name)
            /\ calls' = Append(calls, Call("create", Some(name), None, reason, None))
            /\ stderr' = Append(stderr,
                  <<"Error occurred when trying to create copied pod", reason>>)
            /\ Ends(1, "sys.exit")
            /\ UNCHANGED <<cluster, pod_name>>
       \/ /\ ~Exists(cluster, name)
          /\ calls' = Append(calls, Call("create", Some(name), None, "ok", None))
          /\ cluster' = Append(cluster,
                               [dest_pod[1] EXCEPT !.status = [phase |-> "Pending"]])
          /\ pod_name' = Some(name)
          /\ pc' = "AwaitingRunning"
          /\ UNCHANGED <<stderr, exit_code, ended_by>>
    /\ UNCHANGED <<args, src_pod, dest_pod, result, stdout, stage_vars>>

\* wait_while_pending (lines 189-193): whether the loop goes on after a read
\* that returned a pod in phase ph
KeepsWaiting(ph) == ph = "Pending"

\* Poll with the read wrapped in a try that swallows ApiException: an error
\* answer is followed by another read
PollRetrying ==
    /\ pc = "AwaitingRunning"
    /\ NumCalls("poll") < MaxPolls
    /\ \/ \E reason \in Reasons :
            /\ reason = "NotFound" <=> ~Exists(cluster, pod_name[1])
            /\ calls' = Append(calls, Call("poll", pod_name, None, reason, None))
            /\ UNCHANGED <<pc, exit_code, ended_by, stdout, stderr>>
       \/ /\ Exists(cluster, pod_name[1])
          /\ LET ph == PodNamed(cluster, pod_name[1]).status.phase IN
             /\ calls' = Append(calls, Call("poll", pod_name, None, "ok", Some(ph)))
             /\ IF KeepsWaiting(ph)
                THEN UNCHANGED <<pc, exit_code, ended_by, stdout, stderr>>
                ELSE IF ~TruthyStr(args.interactive)
                THEN /\ stdout' = Append(stdout, pod_name[1])
                     /\ Ends(0, "sys.exit")
                     /\ UNCHANGED stderr
                ELSE IF ~ShlexSplit(args.interactive[1]).ok
                THEN /\ stderr' = Append(stderr, Traceback("ValueError"))
                     /\ Ends(1, "ValueError")
                     /\ UNCHANGED stdout
                ELSE /\ pc' = "Attaching"
                     /\ UNCHANGED <<exit_code, ended_by, stdout, stderr>>
    /\ UNCHANGED <<args, cluster, pod_name, src_pod, dest_pod, result, stage_vars>>

\* one read of wait_while_pending (line 192, called at line 237) and, when the
\* loop ends, lines 239-256 of main
Poll ==
    /\ pc = "AwaitingRunning"
    /\ NumCalls("poll") < MaxPolls
    /\ \/ \E reason \in Reasons :
            /\ reason = "NotFound" <=> ~Exists(cluster, pod_name[1])
            /\ calls' = Append(calls, Call("poll", pod_name, None, reason, None))
            /\ stderr' = Append(stderr, Traceback("ApiException"))
            /\ Ends(1, "ApiException")
            /\ UNCHANGED stdout
       \/ /\ Exists(cluster, pod_name[1])
          /\ LET ph == PodNamed(cluster, pod_name[1]).status.phase IN
             /\ calls' = Append(calls, Call("poll", pod_name, None, "ok", Some(ph)))
             /\ IF KeepsWaiting(ph)
                THEN UNCHANGED <<pc, exit_code, ended_by, stdout, stderr>>
                ELSE IF ~TruthyStr(args.interactive)
                THEN /\ stdout' = Append(stdout, pod_name[1])
                     /\ Ends(0, "sys.exit")
                     /\ UNCHANGED stderr
                ELSE IF ~ShlexSplit(args.interactive[1]).ok
                THEN /\ stderr' = Append(stderr, Traceback("ValueError"))
                     /\ Ends(1, "ValueError")
                     /\ UNCHANGED stdout
                ELSE /\ pc' = "Attaching"
                     /\ UNCHANGED <<exit_code, ended_by, stdout, stderr>>
    /\ UNCHANGED <<args, cluster, pod_name, src_pod, dest_pod, result, stage_vars>>

\* line 257: kubectl exec, run to its end; subprocess.run raises
\* FileNotFoundError when there is no kubectl to run
Attach ==
    /\ pc = "Attaching"
    /\ LET session == [Call("attach", pod_name, None, "ok", None) EXCEPT
                         !.context = args.context,
                         !.remote = Some(ShlexSplit(args.interactive[1]).tokens)]
       IN \/ \E returncode \in ExitCodes :
               /\ calls' = Append(calls, [session EXCEPT !.observed = Some(returncode)])
               /\ result' = Some(returncode)
               /\ pc' = "Cleanup"
               /\ UNCHANGED <<exit_code, ended_by, stderr>>
          \/ /\ calls' = Append(calls, [session EXCEPT !.outcome = "FileNotFoundError"])
             /\ stderr' = Append(stderr, Traceback("FileNotFoundError"))
             /\ Ends(1, "FileNotFoundError")
             /\ UNCHANGED result
    /\ UNCHANGED <<args, cluster, pod_name, src_pod, dest_pod, stdout, stage_vars>>

\* Cleanup that deletes the copy only after a session that returned 0
CleanupOnSuccessOnly ==
    /\ pc = "Cleanup"
    /\ \/ /\ result[1] # 0
          /\ UNCHANGED <<calls, cluster, stdout, stderr>>
       \/ /\ result[1] = 0
          /\ Exists(cluster, pod_name[1])
          /\ calls' = Append(calls,
                 Call("delete", pod_name, Some(GracePeriodSeconds), "ok", None))
          /\ cluster' = RemovePod(cluster, pod_name[1])
          /\ UNCHANGED <<stdout, stderr>>
       \/ \E reason \in Reasons :
            /\ result[1] = 0
            /\ reason = "NotFound" <=> ~Exists(cluster, pod_name[1])
            /\ calls' = Append(calls,
                   Call("delete", pod_name, Some(GracePeriodSeconds), reason, None))
            /\ stdout' = Append(stdout, <<"ApiException", reason>>)
            /\ stderr' = Append(stderr,
                  <<"Error occurred when trying to delete copied pod", reason>>)
            /\ UNCHANGED cluster
    /\ Ends(result[1], "sys.exit")
    /\ UNCHANGED <<args, pod_name, src_pod, dest_pod, result, stage_vars>>

\* Cleanup that exits with status 1 when the delete fails
CleanupEscalating ==
    /\ pc = "Cleanup"
    /\ \/ /\ Exists(cluster, pod_name[1])
          /\ calls' = Append(calls,
                 Call("delete", pod_name, Some(GracePeriodSeconds), "ok", None))
          /\ cluster' = RemovePod(cluster, pod_name[1])
          /\ Ends(result[1], "sys.exit")
          /\ UNCHANGED <<stdout, stderr>>
       \/ \E reason \in Reasons :
            /\ reason = "NotFound" <=> ~Exists(cluster, pod_name[1])
            /\ calls' = Append(calls,
                   Call("delete", pod_name, Some(GracePeriodSeconds), reason, None))
            /\ stdout' = Append(stdout, <<"ApiException", reason>>)
            /\ stderr' = Append(stderr,
                  <<"Error occurred when trying to delete copied pod", reason>>)
            /\ Ends(1, "sys.exit")
            /\ UNCHANGED cluster
    /\ UNCHANGED <<args, pod_name, src_pod, dest_pod, result, stage_vars>>

\* lines 259-272: delete the copy, then exit with the session's return code
Cleanup ==
    /\ pc = "Cleanup"
    /\ \/ /\ Exists(cluster, pod_name[1])
          /\ calls' = Append(calls,
                 Call("delete", pod_name, Some(GracePeriodSeconds), "ok", None))
          /\ cluster' = RemovePod(cluster, pod_name[1])
          /\ UNCHANGED <<stdout, stderr>>
       \/ \E reason \in Reasons :
            /\ reason = "NotFound" <=> ~Exists(cluster, pod_name[1])
            /\ calls' = Append(calls,
                   Call("delete", pod_name, Some(GracePeriodSeconds), reason, None))
            /\ stdout' = Append(stdout, <<"ApiException", reason>>)
            /\ stderr' = Append(stderr,
                  <<"Error occurred when trying to delete copied pod", reason>>)
            /\ UNCHANGED cluster
    /\ Ends(result[1], "sys.exit")
    /\ UNCHANGED <<args, pod_name, src_pod, dest_pod, result, stage_vars>>

\* The cluster moves the created pod through its phases while main() waits
\* (what read_namespaced_pod(...).status.phase at line 192 can return), or
\* another client removes it.
NextPhases(ph) ==
    CASE ph = "Pending" -> {"Running", "Failed", "Unknown"}
      [] ph = "Running" -> {"Succeeded", "Failed", "Unknown"}
      [] ph = "Unknown" -> {"Pending", "Running", "Succeeded", "Failed"}
      [] OTHER -> {}

ClusterPhaseChange ==
    /\ pc = "AwaitingRunning"
    /\ Exists(cluster, pod_name[1])
    /\ \E ph \in NextPhases(PodNamed(cluster, pod_name[1]).status.phase) :
          cluster' = SetPhase(cluster, pod_name[1], ph)
    /\ UNCHANGED <<pc, args, pod_name, src_pod, dest_pod, calls, result,
                   exit_code, ended_by, stdout, stderr, stage_vars>>

ClusterPodRemoved ==
    /\ pc \in {"AwaitingRunning", "Attaching", "Cleanup"}
    /\ Exists(cluster, pod_name[1])
    /\ cluster' = RemovePod(cluster, pod_name[1])
    /\ UNCHANGED <<pc, args, pod_name, src_pod, dest_pod, calls, result,
                   exit_code, ended_by, stdout, stderr, stage_vars>>

Next ==
    \/ ResolveTarget
    \/ Fetch
    \/ Transform
    \/ Submit
    \/ Poll
    \/ Attach
    \/ Cleanup
    \/ ClusterPhaseChange
    \/ ClusterPodRemoved

Spec == Init /\ [][Next]_vars

----------------------------------------------------------------------------
(* main() as a process that keeps running *)

\* a read of wait_while_pending after MaxPolls reads are on record: one that
\* finds the pod still Pending changes nothing and is followed by another
\* (lines 191-193), one that ends the loop goes on as in Poll
PollUnrecorded ==
    /\ pc = "AwaitingRunning"
    /\ NumCalls("poll") >= MaxPolls
    /\ \/ \E reason \in Reasons :
            /\ reason = "NotFound" <=> ~Exists(cluster, pod_name[1])
            /\ calls' = Append(calls, Call("poll", pod_name, None, reason, None))
            /\ stderr' = Append(stderr, Traceback("ApiException"))
            /\ Ends(1, "ApiException")
            /\ UNCHANGED stdout
       \/ /\ Exists(cluster, pod_name[1])
          /\ LET ph == PodNamed(cluster, pod_name[1]).status.phase IN
             IF KeepsWaiting(ph)
             THEN UNCHANGED <<calls, pc, exit_code, ended_by, stdout, stderr>>
             ELSE /\ calls' = Append(calls, Call("poll", pod_name, None, "ok", Some(ph)))
                  /\ IF ~TruthyStr(args.interactive)
                     THEN /\ stdout' = Append(stdout, pod_name[1])
                          /\ Ends(0, "sys.exit")
                          /\ UNCHANGED stderr
                     ELSE IF ~ShlexSplit(args.interactive[1]).ok
                     THEN /\ stderr' = Append(stderr, Traceback("ValueError"))
                          /\ Ends(1, "ValueError")
                          /\ UNCHANGED stdout
                     ELSE /\ pc' = "Attaching"
                          /\ UNCHANGED <<exit_code, ended_by, stdout, stderr>>
    /\ UNCHANGED <<args, cluster, pod_name, src_pod, dest_pod, result, stage_vars>>

NextFair ==
    \/ Next
    \/ PollUnrecorded

\* the statements of main() outside the wait: each runs once control reaches
\* it, and the kubectl session it starts comes to an end
ProgramStep ==
    \/ ResolveTarget
    \/ Fetch
    \/ Transform
    \/ Submit
    \/ Attach
    \/ Cleanup

\* a read of the loop that is answered with a pod whose phase ends the loop:
\* the loop reads again every second, so a pod that stays in such a phase is
\* read in it
WaitEnds ==
    /\ Poll \/ PollUnrecorded
    /\ pc' # "AwaitingRunning"
    /\ ended_by' # "ApiException"

SpecFair ==
    /\ Init
    /\ [][NextFair]_vars
    /\ WF_vars(ProgramStep)
    /\ WF_vars(WaitEnds)

----------------------------------------------------------------------------
(* SpecStages: the transformations applied to drawn inputs *)

EnvA1 == <<"A", "=", "1">>
EnvAbc == <<"A", "=", "b", "=", "c">>
EnvBare == <<"A">>

StageInputs ==
    [pod : {PodWeb, PodApi, PodJob, PodOldCopy},
     container : {None, Some(""), Some("app"), Some("sidecar"), Some("nope")},
     suffix : {None, Some(<<>>), Some(<<"x", "1">>),
               Some(<<"a", "7", "a", "7", "a", "7">>)},
     command : {"sleep infinity", "sh -c 'ls"},
     image : {None, Some("debug:1")},
     env : {None, Some(<<EnvA1>>), Some(<<EnvAbc, EnvA1>>), Some(<<EnvA1, EnvBare>>)},
     cap_add : {None, Some(<< <<"a", ",", "b">>, <<"C">> >>)},
     node_name : {None, Some("node-1")}]

\* the order in which the stages of pod_config.py are applied
StageOrder ==
    <<"remove_extra_containers", "add_annotations", "clear_fields", "set_pod_name",
      "configure_container", "add_capabilities">>

StageReady(name) ==
    /\ sin # None
    /\ stage < Len(StageOrder)
    /\ StageOrder[stage + 1] = name
    /\ spod.ok

StageDone(r) ==
    /\ spod' = r
    /\ stage' = stage + 1
    /\ UNCHANGED <<sin, mono, main_vars>>

\* the program does not run under SpecStages
MainIdle ==
    /\ pc = "Done"
    /\ args = None
    /\ cluster = <<>>
    /\ pod_name = None
    /\ src_pod = None
    /\ dest_pod = None
    /\ calls = <<>>
    /\ result = None
    /\ exit_code = None
    /\ ended_by = "running"
    /\ stdout = <<>>
    /\ stderr = <<>>

InitStages ==
    /\ MainIdle
    /\ \E i \in StageInputs : sin = Some(i) /\ spod = Ok(i.pod)
    /\ stage = 0
    /\ mono = None

SelectContainer ==
    /\ StageReady("remove_extra_containers")
    /\ StageDone(remove_extra_containers(spod.pod, sin[1].container))

AddAnnotations ==
    /\ StageReady("add_annotations")
    /\ \E user \in Users : StageDone(add_annotations(spod.pod, user))

ClearFields ==
    /\ StageReady("clear_fields")
    /\ StageDone(clear_fields(spod.pod))

SetPodName ==
    /\ StageReady("set_pod_name")
    /\ \E random \in RandomSuffixes :
          StageDone(set_pod_name(spod.pod, sin[1].suffix, random))

ConfigureContainer ==
    /\ StageReady("configure_container")
    /\ StageDone(configure_container(spod.pod, sin[1].command, sin[1].image,
                                     sin[1].env))

AddCapabilities ==
    /\ StageReady("add_capabilities")
    /\ StageDone(add_capabilities(spod.pod, sin[1].cap_add))

\* prepare_pod of main.py on the same pod, called as main() calls it
\* (lines 219-226)
RunPreparePod ==
    /\ sin # None
    /\ mono = None
    /\ ShlexSplit(sin[1].command).ok
    /\ \E user \in Users, random \in RandomSuffixes :
          mono' = Some([selection |->
                          prepare_pod_containers(sin[1].pod.spec.containers,
                                                 sin[1].container),
                        returned |->
                          prepare_pod(sin[1].pod, ShlexSplit(sin[1].command).tokens,
                                      sin[1].container, sin[1].image, sin[1].cap_add,
                                      sin[1].node_name, user, random)])
    /\ UNCHANGED <<sin, stage, spod, main_vars>>

NextStages ==
    \/ SelectContainer
    \/ AddAnnotations
    \/ ClearFields
    \/ SetPodName
    \/ ConfigureContainer
    \/ AddCapabilities
    \/ RunPreparePod

SpecStages == InitStages /\ [][NextStages]_vars

----------------------------------------------------------------------------
(* Properties of the orchestrator, checked under Spec *)

CallsOf(op) == {i \in 1..Len(calls) : calls[i].op = op}
IsInteractive == args # None /\ TruthyStr(args.interactive)
\* the create call that the cluster accepted
CreatedCalls == {i \in CallsOf("create") : calls[i].outcome = "ok"}
LastCall == calls[Len(calls)]
Printed(out, msg) == \E i \in 1..Len(out) : out[i][1] = msg

\* the place of each call in the run of main()
Rank(op) ==
    CASE op = "list" -> 0
      [] op = "read" -> 1
      [] op = "create" -> 2
      [] op = "poll" -> 3
      [] op = "attach" -> 4
      [] op = "delete" -> 5

\* C1: the calls to the cluster come in the order create, poll, attach,
\* delete: every poll follows a create that succeeded, the attach session
\* starts after the last poll, and the delete follows an attach session that
\* has exited.
C1_CallOrder ==
    /\ \A i, j \in 1..Len(calls) : i < j => Rank(calls[i].op) <= Rank(calls[j].op)
    /\ \A i \in CallsOf("poll") : \E j \in CreatedCalls : j < i
    /\ \A i \in CallsOf("attach") :
          /\ \E j \in CallsOf("poll") : j < i /\ calls[j].outcome = "ok"
          /\ \A k \in CallsOf("poll") : k < i
    /\ \A i \in CallsOf("delete") :
          \E j \in CallsOf("attach") : j < i /\ calls[j].observed # None

C1_Witness ==
    /\ pc = "Done"
    /\ CreatedCalls # {}
    /\ Cardinality(CallsOf("poll")) >= 2
    /\ CallsOf("attach") # {}
    /\ CallsOf("delete") # {}

\* C2: in interactive mode, once the attach session has ended, the created
\* pod is deleted exactly once, with a grace period of 1 second, before the
\* process ends, whatever the session's exit code.
C2_DeleteOnceAfterAttach ==
    /\ Cardinality(CallsOf("delete")) <= 1
    /\ result # None =>
          /\ pc \in {"Cleanup", "Done"}
          /\ pc = "Cleanup" => CallsOf("delete") = {}
          /\ pc = "Done" =>
                /\ Cardinality(CallsOf("delete")) = 1
                /\ \A d \in CallsOf("delete") :
                      /\ calls[d].grace = Some(1)
                      /\ \E c \in CreatedCalls :
                            /\ calls[c].name = calls[d].name
                            /\ calls[c].namespace = calls[d].namespace
                      /\ \E a \in CallsOf("attach") :
                            a < d /\ calls[a].observed = result

C2_Witness ==
    /\ pc = "Done"
    /\ result = Some(3)
    /\ Cardinality(CallsOf("delete")) = 1

\* C3: in interactive mode the exit status of the process is the attach
\* session's return code, whether the delete succeeded or failed; a failed
\* delete is reported on standard error.
C3_ExitCodeIsSessionCode ==
    (pc = "Done" /\ result # None) =>
        /\ exit_code = result
        /\ \A d \in CallsOf("delete") :
              calls[d].outcome # "ok" =>
                  Printed(stderr, "Error occurred when trying to delete copied pod")

C3_Witness ==
    /\ pc = "Done"
    /\ result = Some(3)
    /\ exit_code = Some(3)
    /\ \E d \in CallsOf("delete") : calls[d].outcome = "Forbidden"

\* C4: a failure after the pod was created and before the attach session
\* has ended is followed by a delete of the created pod: an interactive run
\* that created its pod never ends without a delete call.
C4_FailureAfterCreateIsCleanedUp ==
    (pc = "Done" /\ IsInteractive /\ CreatedCalls # {}) => CallsOf("delete") # {}

LeftWait ==
    \/ pc \in {"Attaching", "Cleanup"}
    \/ pc = "Done" /\ (result # None \/ stdout # <<>>)

\* C6: the orchestrator leaves AwaitingRunning (prints the pod name or goes
\* on to attach) only after a poll that saw the phase "Running"; after a poll
\* that saw any other phase it is still in AwaitingRunning.
C6_LeavesOnlyOnRunning ==
    /\ LeftWait => \E i \in CallsOf("poll") :
                        calls[i].outcome = "ok" /\ calls[i].observed = Some("Running")
    /\ (calls # <<>> /\ LastCall.op = "poll" /\ LastCall.outcome = "ok"
           /\ LastCall.observed # Some("Running"))
        => pc = "AwaitingRunning"

\* what Transform does with the pod that was read does not depend on the
\* suffix drawn
TransformFails ==
    \/ ~ShlexSplit(args.command).ok
    \/ \A user \in Users, suffix \in RandomSuffixes :
          ~prepare_pod(src_pod[1], ShlexSplit(args.command).tokens, args.container,
                       args.image, args.cap_add, args.node_name, user, suffix).ok

EndedWithError == pc = "Done" /\ exit_code = Some(1) /\ stderr # <<>>

\* C7: a failure while resolving the target (the list fails or matches no
\* pod), while reading the source pod, or while transforming it ends the run
\* with an error and without a create call; a rejected create ends the run
\* with an error and without a poll, an attach or a delete call.
C7_EarlyFailureStopsRun ==
    /\ (\E i \in CallsOf("list") \cup CallsOf("read") : calls[i].outcome # "ok")
          => EndedWithError /\ CallsOf("create") = {}
    /\ (CallsOf("list") # {} /\ \A i \in CallsOf("list") : calls[i].outcome = "ok")
          => (ListPods(InitialCluster, args.selector[1]) = <<>>
                => EndedWithError /\ CallsOf("read") = {} /\ CallsOf("create") = {})
    /\ (src_pod # None /\ pc # "Transforming" /\ TransformFails)
          => EndedWithError /\ CallsOf("create") = {}
    /\ (\E i \in CallsOf("create") : calls[i].outcome # "ok")
          => /\ EndedWithError
             /\ CallsOf("poll") \cup CallsOf("attach") \cup CallsOf("delete") = {}
             /\ Cardinality(CallsOf("create")) = 1

C7_Witness ==
    /\ pc = "Done"
    /\ CallsOf("list") # {}
    /\ Printed(stderr, "No pods were found which matched the provided labels")
    /\ CallsOf("create") = {}

\* C8: in non-interactive mode the run that sees its pod running prints the
\* new pod's name and exits with status 0; no run in that mode attaches to
\* the pod or deletes it.
C8_NonInteractivePrintsAndLeaves ==
    (args # None /\ ~TruthyStr(args.interactive)) =>
        /\ CallsOf("attach") = {}
        /\ CallsOf("delete") = {}
        /\ (calls # <<>> /\ LastCall.op = "poll" /\ LastCall.outcome = "ok"
               /\ LastCall.observed = Some("Running"))
            => /\ pc = "Done"
               /\ exit_code = Some(0)
               /\ stdout = <<dest_pod[1].metadata.name>>
               /\ \E c \in CreatedCalls : calls[c].name = Some(stdout[1])
               /\ Exists(cluster, stdout[1])

C8_Witness ==
    /\ ~TruthyStr(args.interactive)
    /\ pc = "Done"
    /\ exit_code = Some(0)
    /\ LastCall.op = "poll"
    /\ LastCall.observed = Some("Running")
    /\ stdout # <<>>

----------------------------------------------------------------------------
(* Properties of the transformations, checked under SpecStages *)

AmbiguousMessages ==
    {"Pod contains multiple containers but `--container` wasn't specified",
     "Error: Pod contains multiple containers but `--container` wasn't specified"}
NotFoundMessages ==
    {"The specified container was not found in the pod",
     "Error: The specified container was not found in the pod"}

\* the selection r (ok and containers, or a failure with msg) made for pod p
\* and container name cn is the one C9 describes; a name is given when it is
\* neither None nor the empty string
SelectionAsClaimed(p, cn, r, containers) ==
    LET given == TruthyStr(cn)
        names == FoundNames(p.spec.containers)
    IN /\ (~given /\ Len(p.spec.containers) > 1)
            => ~r.ok /\ r.msg \in AmbiguousMessages
       /\ (given /\ cn[1] \notin names)
            => ~r.ok /\ r.msg \in NotFoundMessages
       /\ (given /\ cn[1] \in names)
            => /\ r.ok
               /\ Len(containers) = 1
               /\ containers[1].name = cn[1]
               /\ \E i \in 1..Len(p.spec.containers) :
                     containers[1] = p.spec.containers[i]

Cleared(p) ==
    /\ Len(p.spec.containers) = 1
    /\ p.spec.containers[1].liveness_probe = None
    /\ p.spec.containers[1].readiness_probe = None
    /\ p.spec.containers[1].startup_probe = None
    /\ p.spec.containers[1].resources = None
    /\ p.spec.containers[1].args = None
    /\ p.spec.restart_policy = "Never"
    /\ DOMAIN p.status = {}
    /\ p.metadata.uid = None
    /\ p.metadata.resource_version = None
    /\ p.metadata.owner_references = None
    /\ p.metadata.creation_timestamp = None
    /\ p.spec.affinity = None

\* C10: every pod the transformation produces (the pod after the last stage
\* of pod_config.py, and the pod prepare_pod returns) has exactly one
\* container, with its probes, resources and arguments cleared, restart
\* policy "Never", an empty status, and no UID, resource version, owner
\* references, creation timestamp or node affinity.
C10_ProducedPodIsCleared ==
    /\ (stage = Len(StageOrder) /\ spod.ok) => Cleared(spod.pod)
    /\ (mono # None /\ mono[1].returned.ok) => Cleared(mono[1].returned.pod)

C10_Witness ==
    /\ stage = Len(StageOrder)
    /\ spod.ok
    /\ Len(sin[1].pod.spec.containers) = 2
    /\ mono # None
    /\ mono[1].returned.ok

\* s begins with the sequence prefix
HasPrefix(s, prefix) ==
    Len(s) >= Len(prefix) /\ SubSeq(s, 1, Len(prefix)) = prefix

\* the stage at which the named function of pod_config.py has run
After(name) == CHOOSE k \in 1..Len(StageOrder) : StageOrder[k] = name
Named == sin # None /\ stage >= After("set_pod_name") /\ spod.ok
Prepared == mono # None /\ mono[1].returned.ok

\* C11 (as stated): whatever the source pod and the suffix, given by the
\* caller or drawn at random, the copy's name differs from the source pod's.
C11_NameDiffersFromSource ==
    /\ Named => spod.pod.metadata.name # sin[1].pod.metadata.name
    /\ Prepared => mono[1].returned.pod.metadata.name # sin[1].pod.metadata.name

\* C11 (amended): the copy's name differs from the source pod's name unless
\* the source pod is itself named pod-copy-<the suffix chosen>; in particular
\* it differs for every source pod whose name does not begin with pod-copy-.
C11_NameDiffersUnlessSourceIsThatCopy ==
    /\ Named =>
          LET src == sin[1].pod.metadata.name
              new == spod.pod.metadata.name
          IN /\ ~HasPrefix(src, PodCopyPrefix) => new # src
             /\ TruthyList(sin[1].suffix) =>
                   (new = src <=> src = PodCopyPrefix \o sin[1].suffix[1])
             /\ ~TruthyList(sin[1].suffix) =>
                   (new = src => \E r \in RandomSuffixes : src = PodCopyPrefix \o r)
    /\ Prepared =>
          LET src == sin[1].pod.metadata.name
              new == mono[1].returned.pod.metadata.name
          IN /\ ~HasPrefix(src, PodCopyPrefix) => new # src
             /\ new = src => \E r \in RandomSuffixes : src = PodCopyPrefix \o r

C11_Witness ==
    /\ Named
    /\ Prepared
    /\ sin[1].pod.metadata.name = NameOldCopy
    /\ sin[1].suffix = Some(<<"x", "1">>)
    /\ spod.pod.metadata.name # NameOldCopy

FieldsCleared == sin # None /\ stage >= After("clear_fields") /\ spod.ok

\* C12: after the transformation the copy's labels are exactly the marker
\* set (copypod=true from clear_fields; creator and original-pod from
\* prepare_pod), whatever labels the source pod carried: no other key of
\* the source pod's labels is left.
C12_LabelsAreTheMarkerSet ==
    /\ FieldsCleared =>
          /\ DOMAIN spod.pod.metadata.labels = {"copypod"}
          /\ spod.pod.metadata.labels["copypod"] = "true"
          /\ \A k \in DOMAIN sin[1].pod.metadata.labels :
                k \in DOMAIN spod.pod.metadata.labels => k = "copypod"
    /\ Prepared =>
          /\ DOMAIN mono[1].returned.pod.metadata.labels = {"creator", "original-pod"}
          /\ mono[1].returned.pod.metadata.labels["creator"] \in Users
          /\ mono[1].returned.pod.metadata.labels["original-pod"]
                = sin[1].pod.metadata.name
          /\ \A k \in DOMAIN sin[1].pod.metadata.labels :
                k \in DOMAIN mono[1].returned.pod.metadata.labels
                    => k \in {"creator", "original-pod"}

C12_Witness ==
    /\ FieldsCleared
    /\ Prepared
    /\ stage = Len(StageOrder)
    /\ "app" \in DOMAIN sin[1].pod.metadata.labels
    /\ "app" \notin DOMAIN spod.pod.metadata.labels

\* the annotation keys of pod p (none when the mapping is absent)
AnnotationKeys(p) ==
    IF IsNone(p.metadata.annotations) THEN {} ELSE DOMAIN p.metadata.annotations[1]

\* pod p carries the two markers and every annotation key of pod src
Annotated(src, p) ==
    /\ ~IsNone(p.metadata.annotations)
    /\ AnnotationKeys(src) \subseteq AnnotationKeys(p)
    /\ HasKey(p.metadata.annotations[1], "karpenter.sh/do-not-disrupt")
    /\ HasKey(p.metadata.annotations[1], "sentry/ignore-pod-updates")

\* C13: for every source pod, also one with no annotation mapping, the
\* annotation stage (add_annotations; line 117 of prepare_pod) succeeds,
\* keeps every annotation key of the source pod, and leaves the
\* disruption-opt-out and the update-suppression marker in the result.
C13_AnnotationsKeptAndMarked ==
    /\ (sin # None /\ stage = After("add_annotations") - 1 /\ spod.ok)
          => \A user \in Users : add_annotations(spod.pod, user).ok
    /\ (sin # None /\ stage >= After("add_annotations") /\ spod.ok)
          => Annotated(sin[1].pod, spod.pod)
    /\ mono # None =>
          /\ ~mono[1].returned.ok => mono[1].returned.kind # "TypeError"
          /\ mono[1].returned.ok => Annotated(sin[1].pod, mono[1].returned.pod)


----------------------------------------------------------------------------
(* Capabilities *)

\* the container of the source pod that the copy keeps
SourceContainer(i) ==
    IF TruthyStr(i.container)
    THEN FoundContainer(i.pod.spec.containers, i.container[1])
    ELSE i.pod.spec.containers[1]

\* the "add" list of a security context, empty when there is none
AddList(sc) ==
    IF IsNone(sc) THEN <<>>
    ELSE IF IsNone(sc[1].capabilities) THEN <<>>
    ELSE IF IsNone(sc[1].capabilities[1].add) THEN <<>>
    ELSE sc[1].capabilities[1].add[1]

CommaCount(s) == Cardinality({k \in 1..Len(s) : s[k] = ","})

RECURSIVE JoinCommas(_)
JoinCommas(tokens) ==
    IF Len(tokens) = 1 THEN tokens[1]
    ELSE tokens[1] \o <<",">> \o JoinCommas(Tail(tokens))

\* tokens are the groups, upper-cased and cut at their commas, group by group
RECURSIVE TokensOf(_, _)
TokensOf(tokens, groups) ==
    IF groups = <<>> THEN tokens = <<>>
    ELSE LET n == 1 + CommaCount(Head(groups)) IN
         /\ Len(tokens) >= n
         /\ \A k \in 1..n : CommaCount(tokens[k]) = 0
         /\ JoinCommas(SubSeq(tokens, 1, n)) = Upper(Head(groups))
         /\ TokensOf(SubSeq(tokens, n + 1, Len(tokens)), Tail(groups))

\* what the claim says of the container c made from the source container c0
Merged(c0, c, capabilities) ==
    IF ~TruthyList(capabilities)
    THEN c.security_context = c0.security_context
    ELSE LET pre == AddList(c0.security_context)
             add == AddList(c.security_context)
         IN /\ Len(add) >= Len(pre)
            /\ SubSeq(add, 1, Len(pre)) = pre
            /\ TokensOf(SubSeq(add, Len(pre) + 1, Len(add)), capabilities[1])

CapabilitiesAdded == sin # None /\ stage >= After("add_capabilities") /\ spod.ok

\* C14: the "add" list of the copy's container is the source container's
\* entries in their order followed by the caller's tokens (groups cut at
\* commas, upper-cased, in input order, duplicates kept), and without
\* capabilities the security context is the source container's, both after
\* add_capabilities and in the pod prepare_pod returns
C14_CapabilityMerge ==
    /\ CapabilitiesAdded =>
          Merged(SourceContainer(sin[1]), spod.pod.spec.containers[1], sin[1].cap_add)
    /\ Prepared =>
          Merged(SourceContainer(sin[1]), mono[1].returned.pod.spec.containers[1],
                 sin[1].cap_add)

C14_Witness ==
    /\ CapabilitiesAdded
    /\ Prepared
    /\ sin[1].pod = PodApi
    /\ sin[1].container = Some("app")
    /\ sin[1].cap_add # None
    /\ AddList(spod.pod.spec.containers[1].security_context)
         = << <<"C">>, <<"A">>, <<"B">>, <<"C">> >>
    /\ AddList(mono[1].returned.pod.spec.containers[1].security_context)
         = << <<"C">>, <<"A">>, <<"B">>, <<"C">> >>


----------------------------------------------------------------------------
(* Environment variables *)

HasEquals(s) == \E k \in 1..Len(s) : s[k] = "="

EnvOf(c) == IF IsNone(c.env) THEN <<>> ELSE c.env[1]

\* the stage the program is at is configure_container's result
Configured == sin # None /\ stage = After("configure_container")

EnvMessage == "Environment variables need to be provided in the format: NAME=value"

\* entry is what the claim says NAME=value appends for the string s
EntryOf(entry, s) ==
    /\ ~HasEquals(entry.name)
    /\ entry.name \o <<"=">> \o entry.value = s

\* C15: when some environment-variable string holds no "=",
\* configure_container fails, with the NAME=value error whenever the command
\* itself parses; otherwise the container's environment is the source
\* container's entries in their order followed by one entry per string, in
\* input order, whose name is the text before the first "=" and whose value
\* is everything after it
C15_EnvironmentVariables ==
    (Configured /\ sin[1].env # None) =>
       LET given == sin[1].env[1]
           bad == \E k \in 1..Len(given) : ~HasEquals(given[k])
           old == EnvOf(SourceContainer(sin[1]))
       IN /\ bad => ~spod.ok
          /\ (bad /\ ShlexSplit(sin[1].command).ok)
                => (spod.kind = "CopypodError" /\ spod.msg = EnvMessage)
          /\ spod.ok =>
                LET env == EnvOf(spod.pod.spec.containers[1]) IN
                /\ Len(env) = Len(old) + Len(given)
                /\ SubSeq(env, 1, Len(old)) = old
                /\ \A k \in 1..Len(given) : EntryOf(env[Len(old) + k], given[k])

C15_Witness ==
    /\ Configured
    /\ spod.ok
    /\ sin[1].pod = PodOldCopy
    /\ sin[1].env = Some(<<EnvAbc, EnvA1>>)
    /\ EnvOf(spod.pod.spec.containers[1])
         = ExistingEnv \o <<[name |-> <<"A">>, value |-> <<"b", "=", "c">>],
                            [name |-> <<"A">>, value |-> <<"1">>]>>

C15_WitnessRejected ==
    /\ Configured
    /\ ~spod.ok
    /\ sin[1].env = Some(<<EnvA1, EnvBare>>)
    /\ spod.kind = "CopypodError"
    /\ spod.msg = EnvMessage


----------------------------------------------------------------------------
(* The name of the copy *)

LowercaseOrDigit ==
    {"a", "b", "c", "d", "e", "f", "g", "h", "i", "j", "k", "l", "m", "n", "o", "p",
     "q", "r", "s", "t", "u", "v", "w", "x", "y", "z",
     "0", "1", "2", "3", "4", "5", "6", "7", "8", "9"}

\* name is pod-copy- followed by exactly 6 lowercase letters or digits
GeneratedName(name) ==
    /\ HasPrefix(name, PodCopyPrefix)
    /\ Len(name) = Len(PodCopyPrefix) + 6
    /\ \A k \in (Len(PodCopyPrefix) + 1)..Len(name) : name[k] \in LowercaseOrDigit

\* C16 as stated: with a suffix given the name is pod-copy- followed by it,
\* with none it is pod-copy- followed by 6 lowercase letters or digits
C16_NameFromSuffix ==
    /\ Named =>
          IF sin[1].suffix # None
          THEN spod.pod.metadata.name = PodCopyPrefix \o sin[1].suffix[1]
          ELSE GeneratedName(spod.pod.metadata.name)
    /\ Prepared => GeneratedName(mono[1].returned.pod.metadata.name)

\* C16, amended: with a non-empty suffix given the name is pod-copy- followed
\* by it; with no suffix, or an empty one, it is pod-copy- followed by 6
\* lowercase letters or digits, as is the name prepare_pod gives
C16_NameFromNonEmptySuffix ==
    /\ Named =>
          IF sin[1].suffix # None /\ sin[1].suffix # Some(<<>>)
          THEN spod.pod.metadata.name = PodCopyPrefix \o sin[1].suffix[1]
          ELSE GeneratedName(spod.pod.metadata.name)
    /\ Prepared => GeneratedName(mono[1].returned.pod.metadata.name)

C16_Witness ==
    /\ Named
    /\ Prepared
    /\ sin[1].suffix = Some(<<>>)
    /\ spod.pod.metadata.name = PodCopyPrefix \o <<"k", "3", "x", "9", "q", "z">>


----------------------------------------------------------------------------
(* The original-pod marker *)

\* every stage of pod_config.py has run and the pod is the one to submit
Produced == sin # None /\ stage = Len(StageOrder) /\ spod.ok

\* C17: the original-pod marker of the pod to submit (an annotation after the
\* stages of pod_config.py, a label in the pod prepare_pod returns) is the
\* source pod's name, so it is not the copy's name whenever the two differ
C17_OriginalPodIsSourceName ==
    /\ Produced =>
          LET a == spod.pod.metadata.annotations[1] IN
          /\ HasKey(a, "original-pod")
          /\ a["original-pod"] = sin[1].pod.metadata.name
          /\ spod.pod.metadata.name # sin[1].pod.metadata.name
                => a["original-pod"] # spod.pod.metadata.name
    /\ Prepared =>
          LET l == mono[1].returned.pod.metadata.labels IN
          /\ HasKey(l, "original-pod")
          /\ l["original-pod"] = sin[1].pod.metadata.name
          /\ mono[1].returned.pod.metadata.name # sin[1].pod.metadata.name
                => l["original-pod"] # mono[1].returned.pod.metadata.name

C17_Witness ==
    /\ Produced
    /\ Prepared
    /\ sin[1].pod = PodWeb
    /\ spod.pod.metadata.name = PodCopyPrefix \o <<"x", "1">>
    /\ spod.pod.metadata.annotations[1]["original-pod"] = NameWeb
    /\ mono[1].returned.pod.metadata.labels["original-pod"] = NameWeb
    /\ HasPrefix(mono[1].returned.pod.metadata.name, PodCopyPrefix)


----------------------------------------------------------------------------
(* The node name *)

\* C18: the pod prepare_pod returns has the node name the caller gave, and
\* none when the caller gave none, whatever node the source pod runs on;
\* clear_fields, which takes no node name, always clears it
C18_NodeNameClearedUnlessOverridden ==
    /\ Prepared =>
          /\ sin[1].pod.spec.node_name # None
          /\ sin[1].node_name = None
                => mono[1].returned.pod.spec.node_name = None
          /\ sin[1].node_name # None
                => mono[1].returned.pod.spec.node_name = sin[1].node_name
    /\ FieldsCleared => spod.pod.spec.node_name = None

C18_Witness ==
    /\ Prepared
    /\ FieldsCleared
    /\ sin[1].pod.spec.node_name = Some("node-0")
    /\ sin[1].node_name = Some("node-1")
    /\ mono[1].returned.pod.spec.node_name = Some("node-1")
    /\ spod.pod.spec.node_name = None


----------------------------------------------------------------------------
(* The wait has no timeout *)

Created == \E i \in CallsOf("create") : calls[i].outcome = "ok"

CopyIsRunning ==
    /\ Created
    /\ Exists(cluster, pod_name[1])
    /\ PodNamed(cluster, pod_name[1]).status.phase = "Running"

\* if from some time on the copy is Running whenever main() waits for it, the
\* run comes to its end
C19_RunningLeadsToExit ==
    <>[](pc = "AwaitingRunning" => CopyIsRunning) => <>(pc = "Done")

\* if the copy is never Running, main() never gets past the wait to print the
\* pod's name or to attach
C19_NeverRunningNeverLeaves ==
    []~CopyIsRunning => []~LeftWait

\* C19: if the created pod's phase comes to be and stays "Running" (and the
\* attach session, when there is one, ends), the run terminates; if the pod
\* is never "Running", the run never gets past the wait
C19_UnboundedWait ==
    /\ C19_RunningLeadsToExit
    /\ C19_NeverRunningNeverLeaves


----------------------------------------------------------------------------
(* The pod that is deleted *)

\* C20: every delete call names the pod of an earlier create call that the
\* cluster accepted, in the same namespace, and never the source pod; a
\* create call that the cluster rejected (the name may be that of a pod that
\* exists) is the last call of the run
C20_DeleteTargetsCreatedPod ==
    /\ \A i \in CallsOf("delete") :
          /\ \E j \in CreatedCalls :
                /\ j < i
                /\ calls[j].name = calls[i].name
                /\ calls[j].namespace = calls[i].namespace
          /\ calls[i].name # Some(src_pod[1].metadata.name)
          /\ calls[i].name = Some(dest_pod[1].metadata.name)
    /\ \A j \in CallsOf("create") : calls[j].outcome # "ok" => j = Len(calls)

C20_Witness ==
    /\ pc = "Done"
    /\ args.pod = Some(NameOldCopy)
    /\ \E i \in CallsOf("delete") :
          /\ calls[i].outcome = "ok"
          /\ calls[i].name = Some(PodCopyPrefix \o <<"k", "3", "x", "9", "q", "z">>)
    /\ Exists(cluster, NameOldCopy)

C20_WitnessRejected ==
    /\ pc = "Done"
    /\ args.pod = Some(NameOldCopy)
    /\ LastCall.op = "create"
    /\ LastCall.outcome = "AlreadyExists"
    /\ LastCall.name = Some(NameOldCopy)
    /\ Exists(cluster, NameOldCopy)

====
